---- MODULE Spec2Model ----
(***************************************************************************)
(* Harvesting pipeline of the Amazon spiders: the discovery spider         *)
(* (amz_asin.py), the product-detail spider (amz_products.py) and the      *)
(* review spider (amz_reviews.py).  The model covers serial-number         *)
(* bookkeeping, duplicate suppression, resume/range resolution of the      *)
(* work list and the writers of the three output stores.                   *)
(*                                                                         *)
(* The specifications share the variables:                                 *)
(*   SpecWriter      - AmzReviewsSpider.save_to_output_file, step by step  *)
(*   SpecAsin        - AmzAsinSpider over several runs                     *)
(*   SpecProducts    - AmazonProductsSpider over several runs              *)
(*   SpecResolve     - _load_asins_with_serial_filter_or_prompt (both      *)
(*                     spiders) on drawn discovery stores and answers      *)
(*   SpecReviews     - review callbacks of one run of AmzReviewsSpider     *)
(*   SpecReviewsLive - SpecReviews with the page-load retry loop fair      *)
(*   SpecSeed        - the serial seeds of the three spiders               *)
(*   SpecEngine      - fetches in flight under each spider's settings      *)
(*   SpecPaging      - the page chain of one ASIN of the review spider     *)
(*   SpecLogin       - AmzReviewsSpider.login and its caller               *)
(***************************************************************************)
EXTENDS Integers, Sequences, FiniteSets, TLC

VARIABLES
    \* ---- review spider: save_to_output_file -------------------------
    output_file,        \* the review store on disk (self.output_file)
    temp_file,          \* output_file + ".tmp" on disk
    wpc,                \* position inside save_to_output_file
    existing_data,      \* local of save_to_output_file after the merge loop
    call_asin,          \* argument asin of the current / last call
    call_item,          \* argument item of the current / last call
    store_before,       \* output_file as it was when the call started
    outcome,            \* how the last call ended
    writer_log,         \* levels of the messages the current / last call logged
    \* ---- discovery spider -------------------------------------------
    asin_file,          \* data/amz_asin.jsonl, one record per line
    seen_asins,
    previously_scraped_asins,
    last_serial_number,
    scraped_count,
    asin_run,           \* number of the current run (0: none started)
    asin_page,          \* ASINs of the page handled by the last parse call
    \* ---- product-detail spider --------------------------------------
    latest_products,    \* most recently changed data/amz_products_*.json
    data_collected,
    start_serial_number,
    product_count,
    prod_run,           \* number of the current run (0: none started)
    prod_alive,         \* the process of the current run is running
    prod_outcome,       \* how the last parse_product_details call ended
    ap_log,             \* every AP number persisted so far, in write order
    prod_requested,     \* ASINs whose request the scheduler has taken in this run
    \* ---- resume cursor ----------------------------------------------
    input_file,         \* data/amz_asin.jsonl as read by the resolvers
    prior_store,        \* most recent prior output store
    answers,            \* the answers typed at the prompts
    products_resolved,  \* result of the product spider's resolver
    reviews_resolved,   \* result of the review spider's resolver
    specific_asins,     \* module-level specific_asins of the spider
    products_applied,   \* strategies the product spider's resolver applied
    reviews_applied,    \* strategies the review spider's resolver applied
    \* ---- review spider: parse_reviews --------------------------------
    rv_pc,              \* position inside parse_reviews ("idle": no callback)
    rv_asin,            \* meta['asin'] of the current / last callback
    rv_retries,         \* local retries of the page-load loop
    rv_attempts,        \* page loads attempted by the current / last callback
    rv_saves,           \* save_to_output_file calls of the current / last callback
    rv_outcome,         \* how the last callback ended
    rv_extracted,       \* the callback called _extract_reviews
    rv_paginated,       \* the callback called _handle_pagination
    rv_calls,           \* callbacks started so far in the run
    rv_started,         \* ASINs whose first request start_requests has yielded
    rv_pending,         \* ASINs with a next-page request waiting
    review_counter,     \* self.review_counter (0: the ASIN is not a key)
    processed_reviews,  \* self.processed_reviews
    \* ---- serial seeding ----------------------------------------------
    products_seed,      \* how the product spider's _get_last_serial_number ended
    reviews_seed,       \* how the review spider's _get_last_serial_number ended
    \* ---- crawl engine: requests of one run ---------------------------
    eng_spider,         \* the spider class the crawl runs
    eng_launch,         \* how the crawl was started
    eng_waiting,        \* requests yielded and not yet handed to the downloader
    eng_in_flight,      \* requests handed to the downloader, response not yet back
    eng_handled,        \* responses whose callback has run
    \* ---- review spider: the pages of one ASIN --------------------------
    pg_waiting,         \* a request for a page of the ASIN is waiting
    pg_counter,         \* self.review_counter[asin]
    pg_processed,       \* self.processed_reviews[asin]
    pg_page,            \* the review blocks of the last page parsed
    pg_emitted,         \* the reviews _extract_reviews has returned, in order
    \* ---- review spider: login ----------------------------------------
    lg_pc,              \* position inside login / start_requests
    lg_max,             \* argument max_retries
    lg_attempt,         \* local attempt of login
    lg_driver,          \* self.driver: "open" or "quit"
    lg_gets,            \* passes through the body of the while loop
    lg_on_quit,         \* an attempt has called the driver after it was quit
    lg_dispatched       \* review requests start_requests has yielded

writerVars == <<output_file, temp_file, wpc, existing_data, call_asin,
                call_item, store_before, outcome, writer_log>>
asinVars == <<asin_file, seen_asins, previously_scraped_asins,
              last_serial_number, scraped_count, asin_run, asin_page>>
prodVars == <<latest_products, data_collected, start_serial_number,
              product_count, prod_run, prod_alive, prod_outcome, ap_log,
              prod_requested>>
resolveVars == <<input_file, prior_store, answers, products_resolved,
                 reviews_resolved, specific_asins, products_applied,
                 reviews_applied>>
reviewVars == <<rv_pc, rv_asin, rv_retries, rv_attempts, rv_saves, rv_outcome,
                rv_extracted, rv_paginated, rv_calls, rv_started, rv_pending,
                review_counter, processed_reviews>>
seedVars == <<products_seed, reviews_seed>>
engineVars == <<eng_spider, eng_launch, eng_waiting, eng_in_flight, eng_handled>>
pagingVars == <<pg_waiting, pg_counter, pg_processed, pg_page, pg_emitted>>
loginVars == <<lg_pc, lg_max, lg_attempt, lg_driver, lg_gets, lg_on_quit,
               lg_dispatched>>
vars == <<writerVars, asinVars, prodVars, resolveVars, reviewVars, seedVars,
         engineVars, pagingVars, loginVars>>

\* what the actions of one section leave alone
notWriter == <<asinVars, prodVars, resolveVars, reviewVars,
    seedVars, engineVars, pagingVars, loginVars>>
notAsin == <<writerVars, prodVars, resolveVars, reviewVars,
    seedVars, engineVars, pagingVars, loginVars>>
notProd == <<writerVars, asinVars, resolveVars, reviewVars,
    seedVars, engineVars, pagingVars, loginVars>>
notResolve == <<writerVars, asinVars, prodVars, reviewVars,
    seedVars, engineVars, pagingVars, loginVars>>
notSeed == <<writerVars, asinVars, prodVars, resolveVars,
    reviewVars, engineVars, pagingVars, loginVars>>
notEngine == <<writerVars, asinVars, prodVars, resolveVars,
    reviewVars, seedVars, pagingVars, loginVars>>
notPaging == <<writerVars, asinVars, prodVars, resolveVars,
    reviewVars, seedVars, engineVars, loginVars>>
notLogin == <<writerVars, asinVars, prodVars, resolveVars,
    reviewVars, seedVars, engineVars, pagingVars>>
\* parse_reviews changes the review store and nothing else outside its own state
notReviews == <<asinVars, prodVars, resolveVars, seedVars, engineVars, pagingVars,
                loginVars, temp_file, wpc, existing_data,
                call_asin, call_item, store_before, outcome, writer_log>>

----------------------------------------------------------------------------
(* Bounds of the model *)

\* longest reviews list kept in one record of the review store
MaxReviewsLen == 3
\* longest reviews list of one persisted item
MaxNewReviews == 2

(* Small universes *)
ReviewIds == {1, 2}
WriterAsins == {"B1", "B2"}

RECURSIVE SeqsUpTo(_, _)
SeqsUpTo(S, n) ==
    IF n = 0 THEN {<<>>}
    ELSE LET shorter == SeqsUpTo(S, n - 1)
         IN  shorter \cup {Append(s, x) : s \in shorter, x \in S}

----------------------------------------------------------------------------
(* Files.  A file is absent, holds text json.load rejects ("corrupt"),     *)
(* holds a JSON document that is not a list ("notlist"), or holds a JSON   *)
(* list of records ("list").                                               *)

AbsentFile == [kind |-> "absent", data |-> <<>>]
CorruptFile == [kind |-> "corrupt", data |-> <<>>]
NotListFile == [kind |-> "notlist", data |-> <<>>]
ListFile(recs) == [kind |-> "list", data |-> recs]

\* json.load succeeds on the file
ValidJson(f) == f.kind \in {"notlist", "list"}

----------------------------------------------------------------------------
(* Review spider: save_to_output_file *)

\* serial strings such as "ASN42", "AP42": the prefix and the number
FormatSerial(prefix, n) == <<prefix, n>>

\* lines 410-415, 476-481: the item handed to the writer
ReviewItem(asin, ap_serial, reviews) ==
    [ASIN |-> asin, AP_serial_number |-> ap_serial, reviews |-> reviews]

\* meta['AP_serial_number'] of the requests of one ASIN
WriterSerial(asin) == FormatSerial("AP", IF asin = "B1" THEN 1 ELSE 2)

\* lines 760-768: existing_data as loaded from output_file
LoadExisting(f) == IF f.kind = "list" THEN f.data ELSE <<>>

\* index of the first record whose ASIN is asin, 0 when there is none
RECURSIVE FirstIndex(_, _, _)
FirstIndex(recs, asin, i) ==
    IF i > Len(recs) THEN 0
    ELSE IF recs[i].ASIN = asin THEN i
    ELSE FirstIndex(recs, asin, i + 1)

\* faulty variant, for comparison: the stored reviews are overwritten by the new ones
MergeReviews_Overwrite(existing_reviews, new_reviews) == new_reviews

\* line 776: merged_reviews = existing_reviews + new_reviews
MergeReviews(existing_reviews, new_reviews) == existing_reviews \o new_reviews

\* faulty variant, for comparison: the record of the ASIN is taken out and
\* put back, merged, at the end
MergeOrAppend_MovesToEnd(recs, asin, item) ==
    LET i == FirstIndex(recs, asin, 1)
    IN  IF i = 0 THEN Append(recs, item)
        ELSE Append(SelectSeq(recs, LAMBDA r : r.ASIN # asin),
                    [recs[i] EXCEPT !.reviews = MergeReviews(recs[i].reviews, item.reviews)])

\* faulty variant, for comparison: the item is appended without looking for
\* a record of its ASIN
MergeOrAppend_AlwaysAppends(recs, asin, item) == Append(recs, item)

\* lines 770-781: merge into the first record of the ASIN, or append
MergeOrAppend(recs, asin, item) ==
    LET i == FirstIndex(recs, asin, 1)
    IN  IF i = 0 THEN Append(recs, item)
        ELSE [recs EXCEPT ![i].reviews = MergeReviews(recs[i].reviews, item.reviews)]

\* the reviews list the call would store for its ASIN
MergedLen(f, asin, reviews) ==
    LET recs == LoadExisting(f)
        i == FirstIndex(recs, asin, 1)
    IN  IF i = 0 THEN Len(reviews) ELSE Len(recs[i].reviews) + Len(reviews)

\* lines 751-781: the call starts, reads the store and merges in memory
SaveRead ==
    /\ UNCHANGED notWriter
    /\ writer_log' = {}
    /\ wpc = "idle"
    /\ \E asin \in WriterAsins, reviews \in SeqsUpTo(ReviewIds, MaxNewReviews) :
          /\ MergedLen(output_file, asin, reviews) <= MaxReviewsLen
          /\ call_asin' = asin
          /\ call_item' = ReviewItem(asin, WriterSerial(asin), reviews)
          /\ existing_data' = MergeOrAppend(LoadExisting(output_file), asin,
                                   ReviewItem(asin, WriterSerial(asin), reviews))
    /\ store_before' = output_file
    /\ wpc' = "merged"
    /\ outcome' = "running"
    /\ UNCHANGED <<output_file, temp_file>>

\* faulty variant, for comparison: the store itself is opened for writing instead of the temp file
SaveWriteTemp_InPlace ==
    /\ UNCHANGED notWriter
    /\ UNCHANGED writer_log
    /\ wpc = "merged"
    /\ output_file' = ListFile(existing_data)
    /\ wpc' = "tmp_written"
    /\ temp_file' = ListFile(existing_data)
    /\ UNCHANGED <<existing_data, call_asin, call_item, store_before, outcome>>

\* lines 783-784: the whole document is dumped to the temp file
SaveWriteTemp ==
    /\ UNCHANGED notWriter
    /\ UNCHANGED writer_log
    /\ wpc = "merged"
    /\ temp_file' = ListFile(existing_data)
    /\ wpc' = "tmp_written"
    /\ UNCHANGED <<output_file, existing_data, call_asin, call_item,
                   store_before, outcome>>

\* line 786: os.replace(temp_file, self.output_file)
SaveReplace ==
    /\ UNCHANGED notWriter
    /\ writer_log' = writer_log \cup {"info"}    \* line 788
    /\ wpc = "tmp_written"
    /\ output_file' = temp_file
    /\ temp_file' = AbsentFile
    /\ wpc' = "idle"
    /\ outcome' = "saved"
    /\ UNCHANGED <<existing_data, call_asin, call_item, store_before>>

\* lines 783-790: open() or json.dump raises; the handler logs and returns,
\* leaving a partly written temp file behind
SaveWriteFails ==
    /\ UNCHANGED notWriter
    /\ writer_log' = writer_log \cup {"error"}   \* line 790
    /\ wpc = "merged"
    /\ temp_file' = CorruptFile
    /\ wpc' = "idle"
    /\ outcome' = "failed"
    /\ UNCHANGED <<output_file, existing_data, call_asin, call_item, store_before>>

\* the process is interrupted after the merge, before or while the temp
\* file is written
CrashBeforeTemp ==
    /\ UNCHANGED notWriter
    /\ UNCHANGED writer_log
    /\ wpc = "merged"
    /\ \E t \in {temp_file, CorruptFile} : temp_file' = t
    /\ wpc' = "dead"
    /\ outcome' = "interrupted"
    /\ UNCHANGED <<output_file, existing_data, call_asin, call_item, store_before>>

\* the process is interrupted after the temp file is written, before the
\* replace
CrashBeforeReplace ==
    /\ UNCHANGED notWriter
    /\ UNCHANGED writer_log
    /\ wpc = "tmp_written"
    /\ wpc' = "dead"
    /\ outcome' = "interrupted"
    /\ UNCHANGED <<output_file, temp_file, existing_data, call_asin, call_item,
                   store_before>>

WriterIdle ==
    /\ output_file = AbsentFile
    /\ temp_file = AbsentFile
    /\ wpc = "idle"
    /\ existing_data = <<>>
    /\ call_asin = "B1"
    /\ call_item = ReviewItem("B1", WriterSerial("B1"), <<>>)
    /\ store_before = AbsentFile
    /\ outcome = "none"
    /\ writer_log = {}

\* the store of a run: not yet created, or left by an earlier process under
\* the same name (empty list, unparseable text, a JSON value that is no list)
InitWriter ==
    /\ output_file \in {AbsentFile, ListFile(<<>>), CorruptFile, NotListFile}
    /\ temp_file = AbsentFile
    /\ wpc = "idle"
    /\ existing_data = <<>>
    /\ call_asin = "B1"
    /\ call_item = ReviewItem("B1", WriterSerial("B1"), <<>>)
    /\ store_before = output_file
    /\ outcome = "none"
    /\ writer_log = {}

NextWriter ==
    \/ SaveRead
    \/ SaveWriteTemp
    \/ SaveReplace
    \/ SaveWriteFails
    \/ CrashBeforeTemp
    \/ CrashBeforeReplace

----------------------------------------------------------------------------
(* Discovery spider (amz_asin.py) *)

\* runs of the discovery spider
MaxAsinRuns == 2
\* longest result page handed to parse
MaxPageLen == 2
\* amz_asin.py line 29 (max_products = 10000), scaled down
max_products == 3

AsinIds == {"A1", "A2", "A3", "A4"}

Max(a, b) == IF a >= b THEN a ELSE b
Min(a, b) == IF a <= b THEN a ELSE b

\* line 52: int(record["serial_number"].replace("ASN", "")); -1 stands for
\* the ValueError of a text that is no number once "ASN" is removed
SerialOfAsn(s) == IF s[1] = "ASN" /\ s[2] >= 0 THEN s[2] ELSE -1

\* lines 95-104: the line appended for a new ASIN
AsinRecord(n, asin) ==
    [serial_number |-> FormatSerial("ASN", n), asin |-> asin, re_scrape |-> TRUE]

\* lines 48-55: one line of the file; the ASIN is added before the serial
\* is parsed, an invalid serial leaves last_serial_number alone
RECURSIVE LoadPrevious(_, _, _)
LoadPrevious(lines, i, st) ==
    IF i > Len(lines) THEN st
    ELSE LET serial == SerialOfAsn(lines[i].serial_number)
         IN  LoadPrevious(lines, i + 1,
                 [asins |-> st.asins \cup {lines[i].asin},
                  last |-> IF serial < 0 THEN st.last ELSE Max(st.last, serial)])

\* faulty variant, for comparison: the ASINs of earlier runs are not consulted
IsNew_SeenOnly(asin, seen, previous) == asin \notin seen

\* line 87: asin not in seen_asins and asin not in previously_scraped_asins
IsNew(asin, seen, previous) == asin \notin seen /\ asin \notin previous

\* faulty variant, for comparison: seen_asins is rebuilt for every page
MarkSeen_PerPage(seen, asin, i) == IF i = 1 THEN {asin} ELSE seen \cup {asin}

\* line 91: self.seen_asins.add(asin); i is the position in the page
MarkSeen(seen, asin, i) == seen \cup {asin}

\* lines 82-108: the loop of parse over the ASINs of one page
RECURSIVE ParseLoop(_, _, _)
ParseLoop(page, i, st) ==
    IF i > Len(page) THEN st
    ELSE IF st.count >= max_products THEN st
    ELSE IF IsNew(page[i], st.seen, previously_scraped_asins)
         THEN ParseLoop(page, i + 1,
                  [file |-> Append(st.file, AsinRecord(st.last + 1, page[i])),
                   seen |-> MarkSeen(st.seen, page[i], i),
                   last |-> st.last + 1,
                   count |-> st.count + 1])
         ELSE ParseLoop(page, i + 1, st)

\* lines 31-42: a new process; the class attributes start empty and
\* _load_previous_data reads the file
AsinStartRun ==
    /\ UNCHANGED notAsin
    /\ asin_run < MaxAsinRuns
    /\ LET st == LoadPrevious(asin_file, 1, [asins |-> {}, last |-> 0])
       IN  /\ previously_scraped_asins' = st.asins
           /\ last_serial_number' = st.last
    /\ seen_asins' = {}
    /\ scraped_count' = 0
    /\ asin_run' = asin_run + 1
    /\ asin_page' = <<>>
    /\ UNCHANGED asin_file

\* lines 64-108: parse of one result page
AsinParse ==
    /\ UNCHANGED notAsin
    /\ asin_run > 0
    /\ \E page \in SeqsUpTo(AsinIds, MaxPageLen) :
          /\ asin_page' = page
          /\ LET st == ParseLoop(page, 1,
                           [file |-> asin_file, seen |-> seen_asins,
                            last |-> last_serial_number, count |-> scraped_count])
             IN  /\ asin_file' = st.file
                 /\ seen_asins' = st.seen
                 /\ last_serial_number' = st.last
                 /\ scraped_count' = st.count
    /\ UNCHANGED <<previously_scraped_asins, asin_run>>

AsinIdle ==
    /\ asin_file = <<>>
    /\ seen_asins = {}
    /\ previously_scraped_asins = {}
    /\ last_serial_number = 0
    /\ scraped_count = 0
    /\ asin_run = 0
    /\ asin_page = <<>>

InitAsin == AsinIdle

NextAsin ==
    \/ AsinStartRun
    \/ AsinParse

----------------------------------------------------------------------------
(* Product-detail spider (amz_products.py) *)

\* runs of the product-detail spider
MaxProdRuns == 3
\* amz_products.py line 22 (MAX_PRODUCTS = 2000), scaled down
MAX_PRODUCTS == 3

ProdAsins == {"A1", "A2", "A3", "A4"}

\* lines 602-636: the record of one product (serial number and ASIN; the
\* scraped fields play no part in the bookkeeping)
ProductDetails(n, asin) == [serial_number |-> FormatSerial("AP", n), ASIN |-> asin]

\* line 228: int(re.search(r"\d+", item["serial_number"]).group())
DigitsOf(s) == s[2]

\* a serial text without any digit is written <<prefix, -1>>; re.search
\* finds nothing in it and .group() raises
HasDigits(s) == s[2] >= 0

\* line 228: item["serial_number"] and the search succeed for every item
AllSerialsUsable(recs) ==
    \A i \in 1..Len(recs) :
        "serial_number" \in DOMAIN recs[i] /\ HasDigits(recs[i].serial_number)

RECURSIVE MaxSerial(_, _)
MaxSerial(recs, i) ==
    IF i > Len(recs) THEN 0
    ELSE Max(DigitsOf(recs[i].serial_number), MaxSerial(recs, i + 1))

\* how a piece of code ends: it returns a value or raises an exception
Returns(v) == [exc |-> "none", value |-> v]
Raises(name) == [exc |-> name, value |-> 0]

\* faulty variant, for comparison: only json.JSONDecodeError is handled
Caught_JsonOnly(r) == IF r.exc = "JSONDecodeError" THEN Returns(0) ELSE r

\* lines 233-235 (products), 267-270 (reviews): except Exception, then
\* return 0
Caught(r) == IF r.exc # "none" THEN Returns(0) ELSE r

\* lines 217-232: the body of the try block
products_last_serial_try(f) ==
    IF f.kind = "absent" THEN Returns(0)                       \* line 219
    ELSE IF f.kind = "corrupt" THEN Raises("JSONDecodeError")  \* line 225
    ELSE IF f.kind = "list" /\ Len(f.data) > 0
    THEN IF \E i \in 1..Len(f.data) : "serial_number" \notin DOMAIN f.data[i]
         THEN Raises("KeyError")
         ELSE IF ~AllSerialsUsable(f.data) THEN Raises("AttributeError")
         ELSE Returns(MaxSerial(f.data, 1))
    ELSE Returns(0)                                            \* line 235

\* lines 214-235: the highest serial of the most recent amz_products file;
\* 0 when there is none, when it cannot be parsed, when it holds no list
\* or an empty one
get_last_serial_number(f) == Caught(products_last_serial_try(f)).value

\* line 642: product_details not in data_collected
NotCollected(rec, collected) == \A i \in 1..Len(collected) : collected[i] # rec

\* lines 642-643
Collect(rec, collected) ==
    IF NotCollected(rec, collected) THEN Append(collected, rec) ELSE collected

\* faulty variant, for comparison: the requests are built with
\* dont_filter=True, as the review spider builds its own
Filtered_Never(asin, requested) == FALSE

\* line 252: the request is built without dont_filter, so the scheduler
\* drops it when a request for the same URL (base_url, asin and a fixed
\* query string, line 250) was taken before in this crawl
Filtered(asin, requested) == asin \in requested

\* lines 120-135 and module lines 26: a new process starts a run
ProdStartRun ==
    /\ UNCHANGED notProd
    /\ prod_run < MaxProdRuns
    /\ prod_run' = prod_run + 1
    /\ prod_alive' = TRUE
    /\ product_count' = 0
    /\ data_collected' = <<>>
    /\ start_serial_number' = get_last_serial_number(latest_products)
    /\ prod_outcome' = "none"
    /\ prod_requested' = {}
    /\ UNCHANGED <<latest_products, ap_log>>

\* lines 246-252: start_requests yields a request for an ASIN that came
\* earlier in the work list; the scheduler drops it and no callback runs
ProdRequestDropped ==
    /\ UNCHANGED notProd
    /\ prod_alive
    /\ \E asin \in ProdAsins : Filtered(asin, prod_requested)
    /\ prod_outcome' = "filtered"
    /\ UNCHANGED <<latest_products, data_collected, start_serial_number,
                   product_count, prod_run, prod_alive, ap_log, prod_requested>>

\* lines 255-646: the callback runs to the end and the record is written
ProdParseWritten ==
    /\ UNCHANGED notProd
    /\ prod_alive
    /\ product_count < MAX_PRODUCTS
    /\ \E asin \in ProdAsins :
          LET n == start_serial_number + 1
              rec == ProductDetails(n, asin)
          IN  /\ ~Filtered(asin, prod_requested)
              /\ prod_requested' = prod_requested \cup {asin}
              /\ start_serial_number' = n
              /\ data_collected' = Collect(rec, data_collected)
              /\ IF NotCollected(rec, data_collected)
                 THEN /\ latest_products' = ListFile(Collect(rec, data_collected))
                      /\ ap_log' = Append(ap_log, n)
                 ELSE UNCHANGED <<latest_products, ap_log>>
    /\ product_count' = product_count + 1
    /\ prod_outcome' = "written"
    /\ UNCHANGED <<prod_run, prod_alive>>

\* lines 255-272, 647-648: an exception after the serial was taken (the
\* driver fails to load the page, a field is unbound) ends the callback in
\* the except clause; nothing is written
ProdParseFails ==
    /\ UNCHANGED notProd
    /\ prod_alive
    /\ product_count < MAX_PRODUCTS
    /\ \E asin \in ProdAsins :
          /\ ~Filtered(asin, prod_requested)
          /\ prod_requested' = prod_requested \cup {asin}
    /\ product_count' = product_count + 1
    /\ start_serial_number' = start_serial_number + 1
    /\ prod_outcome' = "failed"
    /\ UNCHANGED <<latest_products, data_collected, prod_run, prod_alive, ap_log>>

\* lines 259-260: the cap is reached, the callback returns at once
ProdParseCapped ==
    /\ UNCHANGED notProd
    /\ prod_alive
    /\ product_count >= MAX_PRODUCTS
    /\ \E asin \in ProdAsins :
          /\ ~Filtered(asin, prod_requested)
          /\ prod_requested' = prod_requested \cup {asin}
    /\ prod_outcome' = "capped"
    /\ UNCHANGED <<latest_products, data_collected, start_serial_number,
                   product_count, prod_run, prod_alive, ap_log>>

\* lines 644-645: the process is interrupted after open(..., "w") emptied
\* the file and before json.dump completed
ProdParseInterrupted ==
    /\ UNCHANGED notProd
    /\ prod_alive
    /\ product_count < MAX_PRODUCTS
    /\ \E asin \in ProdAsins :
          LET n == start_serial_number + 1
              rec == ProductDetails(n, asin)
          IN  /\ ~Filtered(asin, prod_requested)
              /\ prod_requested' = prod_requested \cup {asin}
              /\ NotCollected(rec, data_collected)
              /\ start_serial_number' = n
              /\ data_collected' = Collect(rec, data_collected)
    /\ latest_products' = CorruptFile
    /\ product_count' = product_count + 1
    /\ prod_alive' = FALSE
    /\ prod_outcome' = "interrupted"
    /\ UNCHANGED <<prod_run, ap_log>>

ProdIdle ==
    /\ latest_products = AbsentFile
    /\ data_collected = <<>>
    /\ start_serial_number = 0
    /\ product_count = 0
    /\ prod_run = 0
    /\ prod_alive = FALSE
    /\ prod_outcome = "none"
    /\ ap_log = <<>>
    /\ prod_requested = {}

InitProducts == ProdIdle

NextProducts ==
    \/ ProdStartRun
    \/ ProdRequestDropped
    \/ ProdParseWritten
    \/ ProdParseFails
    \/ ProdParseCapped
    \/ ProdParseInterrupted

----------------------------------------------------------------------------
(* Resume cursor: _load_asins_with_serial_filter_or_prompt *)

\* highest serial number of a drawn discovery store or prompt answer
MaxSerialNo == 4
\* most lines of a drawn discovery store
MaxDiscLen == 3
\* most records of a drawn prior output store
MaxPriorLen == 2

AsinNames == <<"A1", "A2", "A3", "A4", "A5", "A6", "A7", "A8">>

\* one line of data/amz_asin.jsonl
InputRecord(n, flag) ==
    [serial_number |-> FormatSerial("ASN", n), asin |-> AsinNames[n],
     re_scrape |-> flag]

\* the lines of a discovery store whose serials are the numbers of S, in
\* increasing order, with the re_scrape flags of f
RECURSIVE InputLines(_, _)
InputLines(S, f) ==
    IF S = {} THEN <<>>
    ELSE LET n == CHOOSE x \in S : \A y \in S : x <= y
         IN  <<InputRecord(n, f[n])>> \o InputLines(S \ {n}, f)

InputStores ==
    {InputLines(S, f) : S \in {T \in SUBSET (1..MaxSerialNo) : Cardinality(T) <= MaxDiscLen},
                        f \in [1..MaxSerialNo -> BOOLEAN]}

\* list.index: 0-based position of the first element equal to x, -1 if none
RECURSIVE PyIndex(_, _, _)
PyIndex(seq, x, i) ==
    IF i > Len(seq) THEN -1
    ELSE IF seq[i] = x THEN i - 1
    ELSE PyIndex(seq, x, i + 1)

\* seq[lo:hi] for 0 <= lo
PySlice(seq, lo, hi) ==
    LET last == Min(hi, Len(seq))
    IN  IF lo + 1 > last THEN <<>> ELSE SubSeq(seq, lo + 1, last)

\* seq[lo:]
PyTail(seq, lo) == PySlice(seq, lo, Len(seq))

RECURSIVE SelectAsins(_, _)
\* amz_products.py lines 157-162: the ASINs of the lines whose re_scrape
\* flag is set
SelectAsins(lines, i) ==
    IF i > Len(lines) THEN <<>>
    ELSE IF lines[i].re_scrape THEN <<lines[i].asin>> \o SelectAsins(lines, i + 1)
    ELSE SelectAsins(lines, i + 1)

\* lines 157-160: serial_numbers, one per line
SerialNumbers(lines) == [i \in 1..Len(lines) |-> lines[i].serial_number]

\* str.replace("ASN", "AP") on a serial
AsnToAp(s) == IF s[1] = "ASN" THEN FormatSerial("AP", s[2]) ELSE s

\* amz_reviews.py lines 186-191: one work record per line
ReviewRecords(lines) ==
    [i \in 1..Len(lines) |->
        [asin |-> lines[i].asin, AP_serial_number |-> AsnToAp(lines[i].serial_number)]]

Resolved(items, warned) == [kind |-> "ok", items |-> items, warned |-> warned]
Exited == [kind |-> "exit", items |-> <<>>, warned |-> FALSE]
Pending == [kind |-> "pending", items |-> <<>>, warned |-> FALSE]
\* start_requests returned without a request: the crawl ends normally
Finished == [kind |-> "finished", items |-> <<>>, warned |-> FALSE]
\* an exception left start_requests
Raised == [kind |-> "raised", items |-> <<>>, warned |-> FALSE]

\* faulty variant, for comparison: one known bound is enough to slice
RangeSlice_EitherBound(items, serial_numbers, start_sn, end_sn) ==
    LET start_idx == PyIndex(serial_numbers, start_sn, 1)
        end_idx == PyIndex(serial_numbers, end_sn, 1)
    IN  IF start_idx >= 0 \/ end_idx >= 0
        THEN [items |-> PySlice(items, Max(start_idx, 0), end_idx + 1),
              warned |-> FALSE]
        ELSE [items |-> items, warned |-> TRUE]

\* lines 171-177 (products), 197-203 (reviews): the explicit range
RangeSlice(items, serial_numbers, start_sn, end_sn) ==
    LET start_idx == PyIndex(serial_numbers, start_sn, 1)
        end_idx == PyIndex(serial_numbers, end_sn, 1)
    IN  IF start_idx >= 0 /\ end_idx >= 0
        THEN [items |-> PySlice(items, start_idx, end_idx + 1), warned |-> FALSE]
        ELSE [items |-> items, warned |-> TRUE]

\* faulty variant, for comparison: the serial after the last one is looked up
ResumeSlice_LooksUpNext(items, serial_numbers, last) ==
    IF last > 0
    THEN LET idx == PyIndex(serial_numbers, FormatSerial("ASN", last + 1), 1)
         IN  IF idx # -1
             THEN [items |-> PyTail(items, idx), warned |-> FALSE]
             ELSE [items |-> items, warned |-> TRUE]
    ELSE [items |-> items, warned |-> FALSE]

\* lines 183-194 (products), 207-215 (reviews): resume after ASN<last>
ResumeSlice(items, serial_numbers, last) ==
    IF last > 0
    THEN LET idx == PyIndex(serial_numbers, FormatSerial("ASN", last), 1)
         IN  IF idx # -1
             THEN [items |-> PyTail(items, idx + 1), warned |-> FALSE]
             ELSE [items |-> items, warned |-> TRUE]
    ELSE [items |-> items, warned |-> FALSE]

\* faulty variant, for comparison: the resume question is asked after the
\* range branch as well
StrategiesApplied_NoElse(ans) ==
    (IF ans.use_range = "yes" THEN {"range"} ELSE {})
        \cup (IF ans.choice = "yes" THEN {"resume"} ELSE {})

\* lines 167-182 (products), 194-206 (reviews): the branch of the prompts
\* that is executed
StrategiesApplied(ans) ==
    IF ans.use_range = "yes" THEN {"range"}
    ELSE IF ans.choice = "yes" THEN {"resume"}
    ELSE {"all"}

\* lines 164-200 (products), 193-219 (reviews): the prompts, the branch
\* taken, then the exit on an empty list
ApplyPrompts(items, serial_numbers, ans, last) ==
    LET applied == StrategiesApplied(ans)
        ranged == IF "range" \in applied
                  THEN RangeSlice(items, serial_numbers, ans.start_sn, ans.end_sn)
                  ELSE [items |-> items, warned |-> FALSE]
        resumed == IF "resume" \in applied
                   THEN ResumeSlice(ranged.items, serial_numbers, last)
                   ELSE [items |-> ranged.items, warned |-> FALSE]
        sel == [items |-> resumed.items, warned |-> ranged.warned \/ resumed.warned]
    IN  IF sel.items = <<>> THEN Exited ELSE Resolved(sel.items, sel.warned)

\* codes of a stored serial that cannot be used: one without digits, and
\* a record without the serial field
NoDigits == -1
NoField == -2

\* the ASIN persisted under the serial number k
PriorAsin(k) == IF k \in 1..Len(AsinNames) THEN AsinNames[k] ELSE AsinNames[1]

\* the most recent amz_products file with the serials of prior_store
ProductsPrior(p) ==
    [kind |-> p.kind,
     data |-> [i \in 1..Len(p.data) |->
                  IF p.data[i] = NoField THEN [ASIN |-> PriorAsin(p.data[i])]
                  ELSE ProductDetails(p.data[i], PriorAsin(p.data[i]))]]

\* the most recent amz_reviews file with the serials of prior_store
ReviewsPrior(p) ==
    [kind |-> p.kind,
     data |-> [i \in 1..Len(p.data) |->
                  IF p.data[i] = NoField
                  THEN [ASIN |-> PriorAsin(p.data[i]), reviews |-> <<>>]
                  ELSE ReviewItem(PriorAsin(p.data[i]),
                                  FormatSerial("AP", p.data[i]), <<>>)]]

\* amz_reviews.py line 258: the items that have the key AP_serial_number
RECURSIVE WithApSerial(_, _)
WithApSerial(recs, i) ==
    IF i > Len(recs) THEN <<>>
    ELSE IF "AP_serial_number" \in DOMAIN recs[i]
    THEN <<recs[i]>> \o WithApSerial(recs, i + 1)
    ELSE WithApSerial(recs, i + 1)

RECURSIVE MaxApSerial(_, _)
MaxApSerial(recs, i) ==
    IF i > Len(recs) THEN 0
    ELSE Max(DigitsOf(recs[i].AP_serial_number), MaxApSerial(recs, i + 1))

\* amz_reviews.py lines 239-266: the body of the try block
reviews_last_serial_try(f) ==
    IF f.kind = "absent" THEN Returns(0)                       \* line 245
    ELSE IF f.kind = "corrupt" THEN Raises("JSONDecodeError")  \* line 252
    ELSE IF f.kind = "list" /\ Len(f.data) > 0
    THEN LET keyed == WithApSerial(f.data, 1)
         IN  IF \E i \in 1..Len(keyed) : ~HasDigits(keyed[i].AP_serial_number)
             THEN Raises("AttributeError")
             ELSE IF keyed = <<>> THEN Raises("ValueError")     \* max() of nothing
             ELSE Returns(MaxApSerial(keyed, 1))
    ELSE Returns(0)                                            \* line 266

\* amz_reviews.py lines 232-270: the highest AP_serial_number of the most
\* recent amz_reviews file, 0 when there is none or it cannot be read
reviews_get_last_serial_number(f) == Caught(reviews_last_serial_try(f)).value

\* amz_products.py lines 150-204
products_load_asins(f, ans, prior) ==
    IF f.kind # "list" THEN Exited
    ELSE ApplyPrompts(SelectAsins(f.data, 1), SerialNumbers(f.data), ans,
                get_last_serial_number(ProductsPrior(prior)))

\* amz_reviews.py lines 175-222
reviews_load_asins(f, ans, prior) ==
    IF f.kind # "list" THEN Exited
    ELSE ApplyPrompts(ReviewRecords(f.data), SerialNumbers(f.data), ans,
                reviews_get_last_serial_number(ReviewsPrior(prior)))

\* amz_reviews.py lines 339-347: the work records of the lines whose asin
\* is one of specific_asins
RECURSIVE SpecificRecords(_, _, _)
SpecificRecords(lines, wanted, i) ==
    IF i > Len(lines) THEN <<>>
    ELSE IF \E k \in 1..Len(wanted) : wanted[k] = lines[i].asin
    THEN <<[asin |-> lines[i].asin,
            AP_serial_number |-> AsnToAp(lines[i].serial_number)]>>
             \o SpecificRecords(lines, wanted, i + 1)
    ELSE SpecificRecords(lines, wanted, i + 1)

\* amz_products.py lines 242-244: start_requests returns when there is
\* nothing to scrape
products_start_requests(res) ==
    IF res.kind = "ok" /\ res.items = <<>> THEN Finished ELSE res

\* amz_products.py lines 125-130, 238-244
products_asins_to_scrape(wanted, f, ans, prior) ==
    products_start_requests(
        IF wanted # <<>> THEN Resolved(wanted, FALSE)
        ELSE products_load_asins(f, ans, prior))

\* amz_reviews.py lines 336-354
reviews_asins_to_scrape(wanted, f, ans, prior) ==
    IF wanted # <<>>
    THEN IF f.kind # "list" THEN Raised    \* open / json.loads outside a try
         ELSE LET records == SpecificRecords(f.data, wanted, 1)
              IN  IF records = <<>> THEN Finished ELSE Resolved(records, FALSE)
    ELSE reviews_load_asins(f, ans, prior)

\* the strategies a run applies: none with specific_asins, none when the
\* discovery store cannot be read
RunStrategies(wanted, f, ans) ==
    IF wanted # <<>> \/ f.kind # "list" THEN {} ELSE StrategiesApplied(ans)

ResolveProducts ==
    /\ UNCHANGED notResolve
    /\ products_resolved = Pending
    /\ products_resolved' =
          products_asins_to_scrape(specific_asins, input_file, answers, prior_store)
    /\ products_applied' = RunStrategies(specific_asins, input_file, answers)
    /\ UNCHANGED <<input_file, prior_store, answers, reviews_resolved,
                   specific_asins, reviews_applied>>

ResolveReviews ==
    /\ UNCHANGED notResolve
    /\ reviews_resolved = Pending
    /\ reviews_resolved' =
          reviews_asins_to_scrape(specific_asins, input_file, answers, prior_store)
    /\ reviews_applied' = RunStrategies(specific_asins, input_file, answers)
    /\ UNCHANGED <<input_file, prior_store, answers, products_resolved,
                   specific_asins, products_applied>>

PromptSerials == {FormatSerial("ASN", k) : k \in 1..(MaxSerialNo + 1)}

NoAnswers ==
    [use_range |-> "no", start_sn |-> FormatSerial("ASN", 1),
     end_sn |-> FormatSerial("ASN", 1), choice |-> "no"]

\* with specific_asins no prompt is shown
NotAsked == [NoAnswers EXCEPT !.use_range = "none", !.choice = "none"]

\* choice is what the user would type at the resume prompt if it were shown
RangeAnswers ==
    {[NoAnswers EXCEPT !.use_range = "yes", !.start_sn = a, !.end_sn = b,
                       !.choice = c] :
        a \in PromptSerials, b \in PromptSerials, c \in {"no", "yes"}}

ResumeAnswers == [NoAnswers EXCEPT !.choice = "yes"]

PriorStores ==
    {AbsentFile, CorruptFile}
        \cup {ListFile(ks) : ks \in SeqsUpTo(1..(MaxSerialNo + 1), MaxPriorLen)}

\* prior stores of at most one record
SmallPriorStores == {p \in PriorStores : Len(p.data) <= 1}

\* values of the module-level specific_asins ("ZZ" is in no discovery store)
SpecificLists == {<<"A1">>, <<"ZZ">>, <<"A2", "ZZ">>}

ResolveIdle ==
    /\ input_file = AbsentFile
    /\ prior_store = AbsentFile
    /\ answers = NoAnswers
    /\ products_resolved = Pending
    /\ reviews_resolved = Pending
    /\ specific_asins = <<>>
    /\ products_applied = {}
    /\ reviews_applied = {}

InitResolve ==
    /\ input_file \in {AbsentFile, CorruptFile} \cup {ListFile(l) : l \in InputStores}
    /\ \/ /\ answers \in RangeAnswers
          /\ prior_store \in SmallPriorStores
          /\ specific_asins = <<>>
       \/ /\ answers = ResumeAnswers
          /\ prior_store \in PriorStores
          /\ specific_asins = <<>>
       \/ /\ answers = NoAnswers
          /\ prior_store \in SmallPriorStores
          /\ specific_asins = <<>>
       \/ /\ answers = NotAsked
          /\ prior_store = AbsentFile
          /\ specific_asins \in SpecificLists
    /\ products_resolved = Pending
    /\ reviews_resolved = Pending
    /\ products_applied = {}
    /\ reviews_applied = {}

NextResolve ==
    \/ ResolveProducts
    \/ ResolveReviews

----------------------------------------------------------------------------
(* Review spider: parse_reviews (amz_reviews.py lines 397-498) *)

\* callbacks of one run
MaxCallbacks == 4
\* most review blocks on one page
MaxBlocks == 2
\* guard of the page-load counter
MaxLoadAttempts == 4
\* amz_reviews.py line 29 (MAX_REVIEWS_PER_ASIN = 20), scaled down
MAX_REVIEWS_PER_ASIN == 3
\* line 425: retries = 3
LoadRetries == 3

\* lines 602-617: one extracted review (serial and id; the scraped fields
\* play no part)
ReviewData(idx, review_id) ==
    [review_serial_number |-> FormatSerial("RV", idx), review_id |-> review_id]

\* a block from which no review id can be read (review_id_raw is None)
NoId == 0

\* line 560: f"manual_{random.randint(1000, 9999)}", the first fallback id
ManualBase == 1000

\* distinct values the random draw of line 560 takes
MaxManual == 2

ManualIds == ManualBase..(ManualBase + MaxManual - 1)

\* what a review block of a page carries: its review id or none
BlockIds == ReviewIds \cup {NoId}

\* lines 555-560: the id read from the block, or the fallback id drawn
ReviewIdOf(block, draw) == IF block = NoId THEN draw ELSE block

\* faulty variant, for comparison: no block is taken for a duplicate
IsDuplicate_Never(review_id, done) == FALSE

\* lines 563-565: the id is in processed_reviews[asin]
IsDuplicate(review_id, done) == review_id \in done

\* faulty variant, for comparison: the loop never breaks
CapReached_Never(idx) == FALSE

\* lines 515-516: the loop counter has passed the cap, break
CapReached(idx) == idx > MAX_REVIEWS_PER_ASIN

\* the random numbers drawn for the blocks of a page: only a block without
\* id draws one
DrawsFor(blocks) ==
    {d \in [1..Len(blocks) -> ManualIds] :
        \A i \in 1..Len(blocks) : blocks[i] # NoId => d[i] = ManualBase}

\* lines 513-622: the loop over the review blocks of a page; idx is the
\* counter of enumerate, done the ids in processed_reviews[asin], draws[i]
\* the random number drawn if block i has no id
RECURSIVE ExtractLoop(_, _, _, _, _, _)
ExtractLoop(blocks, draws, i, idx, done, out) ==
    IF i > Len(blocks) \/ CapReached(idx)
    THEN [reviews |-> out, processed |-> done]
    ELSE LET review_id == ReviewIdOf(blocks[i], draws[i])
         IN  IF IsDuplicate(review_id, done)
             THEN ExtractLoop(blocks, draws, i + 1, idx + 1, done, out)
             ELSE ExtractLoop(blocks, draws, i + 1, idx + 1, done \cup {review_id},
                              Append(out, ReviewData(idx, review_id)))

\* lines 501-627
extract_reviews(blocks, draws, current_review_count, done) ==
    IF blocks = <<>> THEN [reviews |-> <<>>, processed |-> done]
    ELSE ExtractLoop(blocks, draws, 1, current_review_count, done, <<>>)

\* lines 751-790 as one call that goes through
save_to_output_file(f, asin, item) ==
    ListFile(MergeOrAppend(LoadExisting(f), asin, item))

\* the requests the engine can hand to parse_reviews next: the first
\* request of an ASIN not yet started, or a waiting next-page request
NextRequests ==
    {[asin |-> a, first |-> TRUE] : a \in WriterAsins \ rv_started}
        \cup {[asin |-> a, first |-> FALSE] : a \in rv_pending}

\* lines 368-369 (start_requests) and the hand-over of the request
Dispatch(req) ==
    /\ rv_calls < MaxCallbacks
    /\ rv_calls' = rv_calls + 1
    /\ rv_asin' = req.asin
    /\ rv_started' = IF req.first THEN rv_started \cup {req.asin} ELSE rv_started
    /\ rv_pending' = IF req.first THEN rv_pending ELSE rv_pending \ {req.asin}
    /\ rv_attempts' = 0
    /\ rv_extracted' = FALSE
    /\ rv_paginated' = FALSE

\* review_counter once start_requests has yielded the request
CounterAtDispatch(req) ==
    IF req.first /\ review_counter[req.asin] = 0
    THEN [review_counter EXCEPT ![req.asin] = 1]
    ELSE review_counter

\* lines 406-416: the response is a 404
Parse404 ==
    /\ UNCHANGED notReviews
    /\ rv_pc = "idle"
    /\ \E req \in NextRequests :
          /\ Dispatch(req)
          /\ review_counter' = CounterAtDispatch(req)
          /\ output_file' = save_to_output_file(output_file, req.asin,
                                ReviewItem(req.asin, WriterSerial(req.asin), <<>>))
    /\ rv_saves' = 1
    /\ rv_outcome' = "404"
    /\ UNCHANGED <<rv_pc, rv_retries, processed_reviews>>

\* lines 418-426: any other response; _handle_timeout returns at once and
\* the page-load loop is entered
ParseStartLoad ==
    /\ UNCHANGED notReviews
    /\ rv_pc = "idle"
    /\ \E req \in NextRequests :
          /\ Dispatch(req)
          /\ review_counter' = CounterAtDispatch(req)
    /\ rv_retries' = LoadRetries
    /\ rv_pc' = "loading"
    /\ rv_saves' = 0
    /\ rv_outcome' = "running"
    /\ UNCHANGED <<output_file, processed_reviews>>

\* lines 427-432: the page loads, break
LoadSucceeds ==
    /\ UNCHANGED notReviews
    /\ rv_pc = "loading" /\ rv_retries > 0
    /\ rv_attempts < MaxLoadAttempts
    /\ rv_attempts' = rv_attempts + 1
    /\ rv_pc' = "loaded"
    /\ UNCHANGED <<output_file, rv_asin, rv_retries, rv_saves, rv_outcome,
                   rv_extracted, rv_paginated, rv_calls, rv_started,
                   rv_pending, review_counter, processed_reviews>>

\* faulty variant, for comparison: the timeout handler forgets to count down
LoadTimesOut_NoCountdown ==
    /\ UNCHANGED notReviews
    /\ rv_pc = "loading" /\ rv_retries > 0
    /\ rv_attempts < MaxLoadAttempts
    /\ rv_attempts' = rv_attempts + 1
    /\ UNCHANGED <<output_file, rv_pc, rv_asin, rv_retries, rv_saves,
                   rv_outcome, rv_extracted, rv_paginated, rv_calls,
                   rv_started, rv_pending, review_counter, processed_reviews>>

\* lines 433-445: TimeoutException; after the last one the empty record is
\* saved and the callback returns
LoadTimesOut ==
    /\ UNCHANGED notReviews
    /\ rv_pc = "loading" /\ rv_retries > 0
    /\ rv_attempts < MaxLoadAttempts
    /\ rv_attempts' = rv_attempts + 1
    /\ rv_retries' = rv_retries - 1
    /\ IF rv_retries - 1 = 0
       THEN /\ output_file' = save_to_output_file(output_file, rv_asin,
                                  ReviewItem(rv_asin, WriterSerial(rv_asin), <<>>))
            /\ rv_saves' = rv_saves + 1
            /\ rv_outcome' = "timeout"
            /\ rv_pc' = "idle"
       ELSE UNCHANGED <<output_file, rv_saves, rv_outcome, rv_pc>>
    /\ UNCHANGED <<rv_asin, rv_extracted, rv_paginated, rv_calls, rv_started,
                   rv_pending, review_counter, processed_reviews>>

\* lines 428-431: driver.get or the wait raises something that is no
\* TimeoutException; the exception leaves the callback
LoadRaises ==
    /\ UNCHANGED notReviews
    /\ rv_pc = "loading" /\ rv_retries > 0
    /\ rv_attempts < MaxLoadAttempts
    /\ rv_attempts' = rv_attempts + 1
    /\ rv_outcome' = "raised"
    /\ rv_pc' = "idle"
    /\ UNCHANGED <<output_file, rv_asin, rv_retries, rv_saves, rv_extracted,
                   rv_paginated, rv_calls, rv_started, rv_pending,
                   review_counter, processed_reviews>>

\* faulty variant, for comparison: a page without reviews is not recorded
ParseNoSection_NoSave ==
    /\ UNCHANGED notReviews
    /\ rv_pc = "loaded"
    /\ rv_outcome' = "no_section"
    /\ rv_pc' = "idle"
    /\ UNCHANGED <<output_file, rv_asin, rv_retries, rv_attempts, rv_saves,
                   rv_extracted, rv_paginated, rv_calls, rv_started,
                   rv_pending, review_counter, processed_reviews>>

\* lines 457-468: the page holds no review block
ParseNoSection ==
    /\ UNCHANGED notReviews
    /\ rv_pc = "loaded"
    /\ output_file' = save_to_output_file(output_file, rv_asin,
                          ReviewItem(rv_asin, WriterSerial(rv_asin), <<>>))
    /\ rv_saves' = rv_saves + 1
    /\ rv_outcome' = "no_section"
    /\ rv_pc' = "idle"
    /\ UNCHANGED <<rv_asin, rv_retries, rv_attempts, rv_extracted,
                   rv_paginated, rv_calls, rv_started, rv_pending,
                   review_counter, processed_reviews>>

\* lines 470-498 (pages whose blocks all carry a review id; pages with
\* id-less blocks are in the section on the pages of one ASIN): the
\* blocks are extracted, the item is saved, and while
\* the counter is below the cap _handle_pagination runs; it yields a
\* request for the next page or it does not (no button, an invalid link, an
\* exception it swallows)
ParseExtract ==
    /\ UNCHANGED notReviews
    /\ rv_pc = "loaded"
    /\ \E blocks \in SeqsUpTo(ReviewIds, MaxBlocks) \ {<<>>}, next_page \in BOOLEAN :
       \E draws \in DrawsFor(blocks) :
          LET ext == extract_reviews(blocks, draws, review_counter[rv_asin],
                                     processed_reviews[rv_asin])
              counter == review_counter[rv_asin] + Len(ext.reviews)
          IN  /\ processed_reviews' =
                    [processed_reviews EXCEPT ![rv_asin] = ext.processed]
              /\ review_counter' = [review_counter EXCEPT ![rv_asin] = counter]
              /\ output_file' = save_to_output_file(output_file, rv_asin,
                                    ReviewItem(rv_asin, WriterSerial(rv_asin),
                                               ext.reviews))
              /\ rv_paginated' = (counter < MAX_REVIEWS_PER_ASIN)
              /\ rv_pending' = IF counter < MAX_REVIEWS_PER_ASIN /\ next_page
                               THEN rv_pending \cup {rv_asin}
                               ELSE rv_pending
    /\ rv_saves' = rv_saves + 1
    /\ rv_extracted' = TRUE
    /\ rv_outcome' = "extracted"
    /\ rv_pc' = "idle"
    /\ UNCHANGED <<rv_asin, rv_retries, rv_attempts, rv_calls, rv_started>>

ReviewsIdle ==
    /\ rv_pc = "idle"
    /\ rv_asin = "B1"
    /\ rv_retries = 0
    /\ rv_attempts = 0
    /\ rv_saves = 0
    /\ rv_outcome = "none"
    /\ rv_extracted = FALSE
    /\ rv_paginated = FALSE
    /\ rv_calls = 0
    /\ rv_started = {}
    /\ rv_pending = {}
    /\ review_counter = [a \in WriterAsins |-> 0]
    /\ processed_reviews = [a \in WriterAsins |-> {}]

\* lines 137-158: a fresh spider; the store of the run as in InitWriter
InitReviews == ReviewsIdle /\ InitWriter

\* a step of the page-load loop
LoadStep == LoadSucceeds \/ LoadTimesOut \/ LoadRaises

NextReviews ==
    \/ Parse404
    \/ ParseStartLoad
    \/ LoadSucceeds
    \/ LoadTimesOut
    \/ LoadRaises
    \/ ParseNoSection
    \/ ParseExtract

----------------------------------------------------------------------------
(* Seeding of the serial counters: _get_last_serial_number *)

\* highest serial of a drawn prior store
MaxSeedSerial == 3
\* most records of a drawn prior store
MaxSeedLen == 3

\* the getter has not been called
NotCalled == [exc |-> "pending", value |-> 0]

\* prior stores whose records may lack a usable serial
SeedStores ==
    {AbsentFile, CorruptFile, NotListFile}
        \cup {ListFile(ks) :
                 ks \in SeqsUpTo({NoField, NoDigits} \cup (1..MaxSeedSerial), MaxSeedLen)}

\* amz_products.py lines 214-235, called at lines 135 and 183
SeedProducts ==
    /\ UNCHANGED notSeed
    /\ products_seed = NotCalled
    /\ products_seed' = Caught(products_last_serial_try(ProductsPrior(prior_store)))
    /\ UNCHANGED reviews_seed

\* amz_reviews.py lines 232-270, called at line 207
SeedReviews ==
    /\ UNCHANGED notSeed
    /\ reviews_seed = NotCalled
    /\ reviews_seed' = Caught(reviews_last_serial_try(ReviewsPrior(prior_store)))
    /\ UNCHANGED products_seed

SeedIdle == products_seed = NotCalled /\ reviews_seed = NotCalled

InitSeed ==
    /\ SeedIdle
    /\ prior_store \in SeedStores
    /\ input_file = AbsentFile
    /\ answers = NoAnswers
    /\ products_resolved = Pending
    /\ reviews_resolved = Pending
    /\ specific_asins = <<>>
    /\ products_applied = {}
    /\ reviews_applied = {}

NextSeed ==
    \/ SeedProducts
    \/ SeedReviews

----------------------------------------------------------------------------
(* The request ceiling each spider configures for its crawl *)

Spiders == {"amz_asin", "amz_products", "amz_reviews"}

\* "script": the  if __name__ == "__main__"  block, CrawlerProcess() built
\* without settings; "project": the crawl is started inside the project, so
\* settings.py applies
Launches == {"script", "project"}

\* settings.py line 58
CONCURRENT_REQUESTS == 1

\* requests a run yields at most
MaxRequests == 4

\* the ceiling of a crawl for which neither custom_settings nor settings.py
\* gives one: the engine's own default, which is larger than one
DefaultSlots == 2

NotSet == 0

\* the CONCURRENT_REQUESTS entry of the spider's custom_settings:
\* amz_products.py line 99, amz_reviews.py line 101; amz_asin.py lines
\* 11-19 have no such entry
custom_settings(spider) ==
    CASE spider = "amz_products" -> 1
      [] spider = "amz_reviews" -> 1
      [] OTHER -> NotSet

\* custom_settings take precedence over the project's settings.py
Ceiling(spider, launch) ==
    IF custom_settings(spider) # NotSet THEN custom_settings(spider)
    ELSE IF launch = "project" THEN CONCURRENT_REQUESTS
    ELSE DefaultSlots

\* the downloader takes the next request while it has a free slot
EngineFetch ==
    /\ UNCHANGED notEngine
    /\ eng_waiting > 0
    /\ eng_in_flight < Ceiling(eng_spider, eng_launch)
    /\ eng_waiting' = eng_waiting - 1
    /\ eng_in_flight' = eng_in_flight + 1
    /\ UNCHANGED <<eng_spider, eng_launch, eng_handled>>

\* a response comes back and its callback runs to the end; parse_reviews
\* may yield the request of the next page (amz_reviews.py lines 497-498),
\* the other two callbacks yield no request
EngineCallback ==
    /\ UNCHANGED notEngine
    /\ eng_in_flight > 0
    /\ eng_in_flight' = eng_in_flight - 1
    /\ eng_handled' = eng_handled + 1
    /\ \E follow_up \in BOOLEAN :
          /\ follow_up => (eng_spider = "amz_reviews" /\ eng_handled + 1 < MaxRequests)
          /\ eng_waiting' = eng_waiting + (IF follow_up THEN 1 ELSE 0)
    /\ UNCHANGED <<eng_spider, eng_launch>>

EngineIdle ==
    /\ eng_spider = "none"
    /\ eng_launch = "none"
    /\ eng_waiting = 0
    /\ eng_in_flight = 0
    /\ eng_handled = 0

\* start_requests has yielded the requests of the run
InitEngine ==
    /\ eng_spider \in Spiders
    /\ eng_launch \in Launches
    /\ eng_waiting \in 1..MaxRequests
    /\ eng_in_flight = 0
    /\ eng_handled = 0

NextEngine ==
    \/ EngineFetch
    \/ EngineCallback

----------------------------------------------------------------------------
(* The chain of page requests of one ASIN, with no bound on its length *)

\* most review blocks on one page of an ASIN
MaxPageBlocks == 3

\* lines 397-468: the callback ends without asking for a next page: a
\* 404, the page-load retries used up, an exception, or a page without
\* review block
PageEnds ==
    /\ UNCHANGED notPaging
    /\ pg_waiting
    /\ pg_waiting' = FALSE
    /\ pg_page' = <<>>
    /\ UNCHANGED <<pg_counter, pg_processed, pg_emitted>>

\* lines 470-498 and 647-720: the blocks of the page are extracted; while
\* the counter is below the cap _handle_pagination looks for the next-page
\* link, and if the site offers one it yields the request of the next page
PageExtracted ==
    /\ UNCHANGED notPaging
    /\ pg_waiting
    /\ \E blocks \in SeqsUpTo(BlockIds, MaxPageBlocks) \ {<<>>}, next_page \in BOOLEAN :
       \E draws \in DrawsFor(blocks) :
          LET ext == extract_reviews(blocks, draws, pg_counter, pg_processed)
              counter == pg_counter + Len(ext.reviews)
          IN  /\ pg_processed' = ext.processed
              /\ pg_emitted' = pg_emitted \o ext.reviews
              /\ pg_counter' = counter
              /\ pg_waiting' = (counter < MAX_REVIEWS_PER_ASIN /\ next_page)
              /\ pg_page' = blocks

PagingIdle ==
    /\ pg_waiting = FALSE
    /\ pg_counter = 0
    /\ pg_processed = {}
    /\ pg_page = <<>>
    /\ pg_emitted = <<>>

\* lines 363-394: start_requests has set the counter of the ASIN to 1 and
\* yielded the request of its first page
InitPaging ==
    /\ pg_waiting = TRUE
    /\ pg_counter = 1
    /\ pg_processed = {}
    /\ pg_page = <<>>
    /\ pg_emitted = <<>>

NextPaging ==
    \/ PageEnds
    \/ PageExtracted

----------------------------------------------------------------------------
(* login of the review spider and the requests that follow it *)

\* largest max_retries a call is made with (line 273: the default, with
\* which start_requests calls login, is 3)
MaxLoginRetries == 4

\* lines 276-291: the loop test holds, the try block is entered and the
\* driver is asked for the login page; the call raises when the driver has
\* been quit
LoginNavigate ==
    /\ UNCHANGED notLogin
    /\ lg_pc = "loop" /\ lg_attempt < lg_max
    /\ lg_gets' = lg_gets + 1
    /\ IF lg_driver = "quit"
       THEN lg_on_quit' = TRUE /\ lg_pc' = "except"
       ELSE \E loaded \in BOOLEAN :
              /\ lg_pc' = IF loaded THEN "email" ELSE "except"
              /\ UNCHANGED lg_on_quit
    /\ UNCHANGED <<lg_max, lg_attempt, lg_driver, lg_dispatched>>

\* line 294: the wait for the e-mail field ends or times out
LoginEmailField ==
    /\ UNCHANGED notLogin
    /\ lg_pc = "email"
    /\ \E visible \in BOOLEAN : lg_pc' = IF visible THEN "check" ELSE "except"
    /\ UNCHANGED <<lg_max, lg_attempt, lg_driver, lg_gets, lg_on_quit, lg_dispatched>>

\* lines 297-302: the page is a CAPTCHA or MFA challenge: the driver is
\* quit and an exception is raised, inside the try block
LoginChallenge ==
    /\ UNCHANGED notLogin
    /\ lg_pc = "check"
    /\ lg_driver' = "quit"
    /\ lg_pc' = "except"
    /\ UNCHANGED <<lg_max, lg_attempt, lg_gets, lg_on_quit, lg_dispatched>>

\* lines 304-311: no challenge; the e-mail is entered and the password
\* field is waited for
LoginEnterEmail ==
    /\ UNCHANGED notLogin
    /\ lg_pc = "check"
    /\ \E visible \in BOOLEAN : lg_pc' = IF visible THEN "password" ELSE "except"
    /\ UNCHANGED <<lg_max, lg_attempt, lg_driver, lg_gets, lg_on_quit, lg_dispatched>>

\* lines 312-320: the password is entered and the form submitted; the
\* cookies are read and login returns True
LoginSubmit ==
    /\ UNCHANGED notLogin
    /\ lg_pc = "password"
    /\ \E done \in BOOLEAN : lg_pc' = IF done THEN "true" ELSE "except"
    /\ UNCHANGED <<lg_max, lg_attempt, lg_driver, lg_gets, lg_on_quit, lg_dispatched>>

\* lines 322-331: the handler counts the attempt; after the last one it
\* quits the driver and re-raises, otherwise the loop goes on
LoginExcept ==
    /\ UNCHANGED notLogin
    /\ lg_pc = "except"
    /\ lg_attempt' = lg_attempt + 1
    /\ IF lg_attempt + 1 >= lg_max
       THEN lg_driver' = "quit" /\ lg_pc' = "raised"
       ELSE lg_pc' = "loop" /\ UNCHANGED lg_driver
    /\ UNCHANGED <<lg_max, lg_gets, lg_on_quit, lg_dispatched>>

\* lines 357-394: login has returned True and start_requests yields the
\* request of the next ASIN
YieldReviewRequest ==
    /\ UNCHANGED notLogin
    /\ lg_pc = "true"
    /\ lg_dispatched < MaxRequests
    /\ lg_dispatched' = lg_dispatched + 1
    /\ UNCHANGED <<lg_pc, lg_max, lg_attempt, lg_driver, lg_gets, lg_on_quit>>

LoginIdle ==
    /\ lg_pc = "idle"
    /\ lg_max = 0
    /\ lg_attempt = 0
    /\ lg_driver = "open"
    /\ lg_gets = 0
    /\ lg_on_quit = FALSE
    /\ lg_dispatched = 0

\* lines 273-275: login is entered; the driver of __init__ (line 151) is open
InitLogin ==
    /\ lg_pc = "loop"
    /\ lg_max \in 1..MaxLoginRetries
    /\ lg_attempt = 0
    /\ lg_driver = "open"
    /\ lg_gets = 0
    /\ lg_on_quit = FALSE
    /\ lg_dispatched = 0

NextLogin ==
    \/ LoginNavigate
    \/ LoginEmailField
    \/ LoginChallenge
    \/ LoginEnterEmail
    \/ LoginSubmit
    \/ LoginExcept
    \/ YieldReviewRequest

----------------------------------------------------------------------------
(* Specifications *)

InitSpecWriter == InitWriter /\ AsinIdle /\ ProdIdle /\ ResolveIdle /\ ReviewsIdle /\ SeedIdle /\ EngineIdle /\ PagingIdle /\ LoginIdle
SpecWriter == InitSpecWriter /\ [][NextWriter]_vars

InitSpecAsin == InitAsin /\ WriterIdle /\ ProdIdle /\ ResolveIdle /\ ReviewsIdle /\ SeedIdle /\ EngineIdle /\ PagingIdle /\ LoginIdle
SpecAsin == InitSpecAsin /\ [][NextAsin]_vars

InitSpecProducts == InitProducts /\ WriterIdle /\ AsinIdle /\ ResolveIdle /\ ReviewsIdle /\ SeedIdle /\ EngineIdle /\ PagingIdle /\ LoginIdle
SpecProducts == InitSpecProducts /\ [][NextProducts]_vars

InitSpecResolve == InitResolve /\ WriterIdle /\ AsinIdle /\ ProdIdle /\ ReviewsIdle /\ SeedIdle /\ EngineIdle /\ PagingIdle /\ LoginIdle
SpecResolve == InitSpecResolve /\ [][NextResolve]_vars

InitSpecReviews == InitReviews /\ AsinIdle /\ ProdIdle /\ ResolveIdle /\ SeedIdle /\ EngineIdle /\ PagingIdle /\ LoginIdle
SpecReviews == InitSpecReviews /\ [][NextReviews]_vars

InitSpecSeed == InitSeed /\ WriterIdle /\ AsinIdle /\ ProdIdle /\ ReviewsIdle /\ EngineIdle /\ PagingIdle /\ LoginIdle
SpecSeed == InitSpecSeed /\ [][NextSeed]_vars

InitSpecEngine ==
    InitEngine /\ WriterIdle /\ AsinIdle /\ ProdIdle /\ ResolveIdle /\ ReviewsIdle /\ SeedIdle /\ PagingIdle /\ LoginIdle
SpecEngine == InitSpecEngine /\ [][NextEngine]_vars

InitSpecPaging ==
    InitPaging /\ WriterIdle /\ AsinIdle /\ ProdIdle /\ ResolveIdle /\ ReviewsIdle /\ SeedIdle /\ EngineIdle /\ LoginIdle

\* the engine hands every waiting request to its callback, and the callback
\* returns
SpecPaging == InitSpecPaging /\ [][NextPaging]_vars /\ WF_vars(NextPaging)

InitSpecLogin ==
    InitLogin /\ WriterIdle /\ AsinIdle /\ ProdIdle /\ ResolveIdle /\ ReviewsIdle /\ SeedIdle /\ EngineIdle /\ PagingIdle
SpecLogin == InitSpecLogin /\ [][NextLogin]_vars

\* a callback that has entered the page-load loop keeps running: every
\* driver.get returns or raises, every sleep ends
SpecReviewsLive == SpecReviews /\ WF_vars(LoadStep)

----------------------------------------------------------------------------
(* Claims about the review writer, checked under SpecWriter *)

\* lst is e followed by n, element by element
IsConcat(lst, e, n) ==
    /\ Len(lst) = Len(e) + Len(n)
    /\ \A k \in 1..Len(e) : lst[k] = e[k]
    /\ \A k \in 1..Len(n) : lst[Len(e) + k] = n[k]

\* positions of the records of an ASIN in a list of records
PositionsOf(recs, asin) == {j \in 1..Len(recs) : recs[j].ASIN = asin}

\* the store held a record of the ASIN of the last call when the call began
HeldBefore ==
    /\ store_before.kind = "list"
    /\ PositionsOf(store_before.data, call_asin) # {}

\* C1: save_to_output_file merges and never overwrites.  Whenever a call
\* has completed on a store that already held a record of the same ASIN
\* with reviews E, the store holds exactly one record of that ASIN and its
\* reviews are E followed by the reviews N of the persisted item.
C1_MergeNotOverwrite ==
    (outcome = "saved" /\ HeldBefore) =>
        /\ output_file.kind = "list"
        /\ Cardinality(PositionsOf(output_file.data, call_asin)) = 1
        /\ \A j \in PositionsOf(output_file.data, call_asin) :
              \A i \in PositionsOf(store_before.data, call_asin) :
                 IsConcat(output_file.data[j].reviews,
                          store_before.data[i].reviews, call_item.reviews)

\* a completed call that merged a non-empty N into a non-empty E
C1_Witness ==
    /\ outcome = "saved"
    /\ HeldBefore
    /\ call_item.reviews # <<>>
    /\ \E i \in PositionsOf(store_before.data, call_asin) :
          store_before.data[i].reviews # <<>>

\* the document a completed call leaves, computed from the store as it was
\* when the call began
FullyNew ==
    ListFile(MergeOrAppend(LoadExisting(store_before), call_asin, call_item))

\* C2: crash safety of the review writer.  At every point of a call before
\* os.replace has completed, and after an interruption at any such point,
\* the store file holds exactly what it held when the call began (a valid
\* JSON document stays one); the store is only ever the old document or the
\* complete new one.
C2_CrashSafe ==
    /\ (wpc \in {"merged", "tmp_written"} \/ outcome = "interrupted")
          => output_file = store_before
    /\ output_file \in {store_before, FullyNew}
    /\ ValidJson(store_before) => ValidJson(output_file)

\* interrupted after the temp file was written and before the replace, on a
\* store that held records and that the call would have changed
C2_Witness ==
    /\ outcome = "interrupted"
    /\ temp_file = FullyNew
    /\ store_before.kind = "list"
    /\ Len(store_before.data) > 0
    /\ FullyNew # store_before
    /\ output_file = store_before

----------------------------------------------------------------------------
(* Claims about serial numbers, checked under SpecProducts (the product    *)
(* store) and SpecAsin (the discovery store)                               *)

\* numbers of the serials of a list of records, in order
SerialsOf(recs) == [i \in 1..Len(recs) |-> recs[i].serial_number[2]]

\* each number is one more than the one before it
Consecutive(nums) == \A i \in 1..(Len(nums) - 1) : nums[i + 1] = nums[i] + 1

\* each number is greater than every number before it
StrictlyIncreasing(nums) ==
    \A i \in 1..Len(nums) : \A j \in 1..Len(nums) : i < j => nums[i] < nums[j]

\* the records the current run of the discovery spider has appended
AsinRunRecords ==
    SubSeq(asin_file, Len(asin_file) - scraped_count + 1, Len(asin_file))

\* C3: within one run the serial numbers of the records persisted to the
\* output store (ASN in the discovery store, AP in the product store), in
\* write order, are consecutive: no gaps and no repeats.
C3_SerialsConsecutive ==
    /\ Consecutive(SerialsOf(AsinRunRecords))
    /\ Consecutive(SerialsOf(data_collected))
    /\ (prod_alive /\ latest_products.kind = "list" /\ data_collected # <<>>)
          => latest_products.data = data_collected

\* C4: a failed item does not burn a serial number.  A call of
\* parse_product_details that ends in the except clause leaves
\* start_serial_number at the value it had before the call.
C4_FailureKeepsSerial ==
    [][(prod_run' = prod_run /\ product_count' = product_count + 1
            /\ prod_outcome' = "failed")
          => start_serial_number' = start_serial_number]_vars

\* C5: no serial reuse across runs.  Over all runs, every record persisted
\* later carries a greater serial number than every record persisted
\* earlier (ASN in the discovery store, AP in the product stores).
C5_NoSerialReuse ==
    /\ StrictlyIncreasing(SerialsOf(asin_file))
    /\ StrictlyIncreasing(ap_log)

----------------------------------------------------------------------------
(* Claims about the duplicate filter, checked under SpecAsin *)

\* the ASINs of a page
PageAsins(page) == {page[i] : i \in 1..Len(page)}

\* the ASINs of the records appended by the step
WrittenAsins == {asin_file'[j].asin : j \in (Len(asin_file) + 1)..Len(asin_file')}

\* a step of parse within the current run
ParseStep == asin_run' = asin_run /\ asin_run > 0

NoDuplicateAsin ==
    \A i \in 1..Len(asin_file) : \A j \in 1..Len(asin_file) :
        asin_file[i].asin = asin_file[j].asin => i = j

\* the ASINs of a page that are absent from both sets, each once, in page
\* order
RECURSIVE NewOnPage(_, _, _)
NewOnPage(page, i, known) ==
    IF i > Len(page) THEN <<>>
    ELSE IF page[i] \in known THEN NewOnPage(page, i + 1, known)
    ELSE <<page[i]>> \o NewOnPage(page, i + 1, known \cup {page[i]})

\* C6 as stated: parse writes a record for an ASIN of its page iff the ASIN
\* is absent from both seen_asins and previously_scraped_asins, and no two
\* records of the discovery store share an asin.
C6_WritesIffAbsent ==
    /\ []NoDuplicateAsin
    /\ [][ParseStep =>
            \A a \in PageAsins(asin_page') :
                (a \in WrittenAsins) <=>
                    (a \notin seen_asins /\ a \notin previously_scraped_asins)]_vars

\* C6 as amended: parse writes a record for an ASIN of its page iff the
\* ASIN is absent from both sets when the loop reaches it, and the loop
\* reaches it only while scraped_count < max_products: the records written
\* by one call are the first max_products - scraped_count new ASINs of the
\* page, in page order.  No two records of the discovery store share an asin.
C6_WritesIffAbsentBelowCap ==
    /\ []NoDuplicateAsin
    /\ [][ParseStep =>
            LET new == NewOnPage(asin_page', 1,
                                 seen_asins \cup previously_scraped_asins)
                room == max_products - scraped_count
                k == IF Len(new) <= room THEN Len(new) ELSE room
            IN  /\ Len(asin_file') = Len(asin_file) + k
                /\ \A j \in 1..k : asin_file'[Len(asin_file) + j].asin = new[j]
                /\ \A j \in 1..Len(asin_file) : asin_file'[j] = asin_file[j]]_vars

\* a later run has skipped an ASIN of an earlier run and written a new one
\* from the same page
C6_Witness ==
    /\ asin_run >= 2
    /\ Len(asin_page) = 2
    /\ asin_page[1] \in previously_scraped_asins
    /\ asin_page[2] \in seen_asins
    /\ asin_page[2] \notin previously_scraped_asins
    /\ asin_file[Len(asin_file)].asin = asin_page[2]
    /\ NoDuplicateAsin

\* C7: the newness test never turns from false to true within a run, and
\* neither set loses an element: an ASIN that is in seen_asins or in
\* previously_scraped_asins stays there in every later parse call of the
\* run.
C7_MonotonicFilter ==
    [][ParseStep =>
          /\ seen_asins \subseteq seen_asins'
          /\ previously_scraped_asins \subseteq previously_scraped_asins'
          /\ \A k \in AsinIds :
                (k \in seen_asins \/ k \in previously_scraped_asins)
                   => (k \in seen_asins' \/ k \in previously_scraped_asins')]_vars

\* a parse call of the run met only ASINs marked seen earlier in the run
\* and wrote nothing
C7_Witness ==
    /\ asin_run > 0
    /\ asin_page # <<>>
    /\ PageAsins(asin_page) \subseteq seen_asins
    /\ Len(asin_file) > 0
    /\ asin_file[Len(asin_file)].asin \notin PageAsins(asin_page)

----------------------------------------------------------------------------
(* Claims about the resume cursor, checked under SpecResolve *)

BothResolved == products_resolved # Pending /\ reviews_resolved # Pending

\* the discovery store was read and its serials are ASN1..ASNn in order
ListsAsn1ToN ==
    /\ input_file.kind = "list"
    /\ \A i \in 1..Len(input_file.data) :
          input_file.data[i].serial_number = FormatSerial("ASN", i)

\* the serial ASN<k> occurs in the discovery store
Occurs(k) ==
    \E i \in 1..Len(input_file.data) :
        input_file.data[i].serial_number = FormatSerial("ASN", k)

\* position (from 1) of the line whose serial is sn
PositionOf(sn) ==
    CHOOSE i \in 1..Len(input_file.data) : input_file.data[i].serial_number = sn

\* highest serial of the prior output store, 0 when it holds none
PriorHighest ==
    IF prior_store.kind = "list" /\ Len(prior_store.data) > 0
    THEN CHOOSE k \in {prior_store.data[i] : i \in 1..Len(prior_store.data)} :
            \A i \in 1..Len(prior_store.data) : prior_store.data[i] <= k
    ELSE 0

\* the ASINs of the lines at positions lo..hi, in order
AsinsAt(lo, hi) == [i \in 1..(hi - lo + 1) |-> input_file.data[lo + i - 1].asin]

\* the same, keeping only the lines whose re_scrape flag is set
EligibleAsinsAt(lo, hi) ==
    IF lo > hi THEN <<>> ELSE SelectAsins(SubSeq(input_file.data, lo, hi), 1)

\* the ASINs of the work records of the review spider's resolver
ReviewAsins == [i \in 1..Len(reviews_resolved.items) |-> reviews_resolved.items[i].asin]

\* the product spider resolved the lines at positions lo..hi: all of them,
\* or those of them whose re_scrape flag is set (with none set the run may
\* end for want of work)
ProductsReturn(lo, hi) ==
    \/ /\ products_resolved.kind = "ok"
       /\ products_resolved.items \in {AsinsAt(lo, hi), EligibleAsinsAt(lo, hi)}
    \/ /\ products_resolved.kind = "exit"
       /\ EligibleAsinsAt(lo, hi) = <<>>

\* the review spider resolved the lines at positions lo..hi
ReviewsReturn(lo, hi) ==
    /\ reviews_resolved.kind = "ok"
    /\ ReviewAsins = AsinsAt(lo, hi)

\* C8: resume resolution.  If the discovery store lists ASN1..ASNn in order
\* and the highest serial of the most recent prior output store is k with
\* 1 <= k < n, resolving in resume mode returns the items at discovery
\* positions k+1..n in order, whatever the re_scrape flags.
C8_ResumeReturnsSuffix ==
    (/\ BothResolved
     /\ answers = ResumeAnswers
     /\ ListsAsn1ToN
     /\ 1 <= PriorHighest
     /\ PriorHighest < Len(input_file.data))
        => /\ ProductsReturn(PriorHighest + 1, Len(input_file.data))
           /\ ReviewsReturn(PriorHighest + 1, Len(input_file.data))

\* the full work sequence of each spider
FullProducts == SelectAsins(input_file.data, 1)
FullReviews == ReviewRecords(input_file.data)

\* the resolver fell back to the full work sequence with a warning (an
\* empty full sequence ends the run)
FellBack(result, full) ==
    IF full = <<>> THEN result = Exited ELSE result = Resolved(full, TRUE)

\* C9 as stated: in resume mode with last committed serial number last, if
\* no discovery item carries the serial ASN<last+1>, the resolver returns
\* the full work sequence with a warning; it returns no empty sequence and
\* does not end the run.
C9_FallbackWhenNextMissing ==
    (/\ BothResolved
     /\ answers = ResumeAnswers
     /\ input_file.kind = "list"
     /\ PriorHighest > 0
     /\ ~Occurs(PriorHighest + 1))
        => /\ FellBack(products_resolved, FullProducts)
           /\ FellBack(reviews_resolved, FullReviews)

\* C9 as amended: in resume mode with last committed serial number
\* last > 0, if no discovery item carries the serial ASN<last> itself, the
\* resolver returns the full work sequence with a warning and ends the run
\* only when that full sequence is empty.
C9_FallbackWhenLastMissing ==
    (/\ BothResolved
     /\ answers = ResumeAnswers
     /\ input_file.kind = "list"
     /\ PriorHighest > 0
     /\ ~Occurs(PriorHighest))
        => /\ FellBack(products_resolved, FullProducts)
           /\ FellBack(reviews_resolved, FullReviews)

\* both resolvers fell back with a warning although the serial after the
\* missing last one is in the discovery store
C9_Witness ==
    /\ BothResolved
    /\ answers = ResumeAnswers
    /\ input_file.kind = "list"
    /\ PriorHighest > 0
    /\ ~Occurs(PriorHighest)
    /\ Occurs(PriorHighest + 1)
    /\ products_resolved.kind = "ok" /\ products_resolved.warned
    /\ Len(products_resolved.items) >= 2
    /\ reviews_resolved.kind = "ok" /\ reviews_resolved.warned

\* C10: explicit range resolution.  When start_serial and end_serial both
\* occur among the serials of the discovery store, the resolver returns the
\* work items at the positions from that of start_serial to that of
\* end_serial inclusive, in discovery order, whatever the re_scrape flags.
C10_RangeReturnsSlice ==
    (/\ BothResolved
     /\ answers.use_range = "yes"
     /\ input_file.kind = "list"
     /\ Occurs(answers.start_sn[2])
     /\ Occurs(answers.end_sn[2])
     /\ PositionOf(answers.start_sn) <= PositionOf(answers.end_sn))
        => /\ ProductsReturn(PositionOf(answers.start_sn), PositionOf(answers.end_sn))
           /\ ReviewsReturn(PositionOf(answers.start_sn), PositionOf(answers.end_sn))

\* an explicit range was asked for and one of its two serials is not a
\* serial of the discovery store
RangeWithMissingBound ==
    /\ BothResolved
    /\ answers.use_range = "yes"
    /\ input_file.kind = "list"
    /\ ~Occurs(answers.start_sn[2]) \/ ~Occurs(answers.end_sn[2])

\* C11 as stated: when start_serial or end_serial (or both) does not occur
\* among the serials of the discovery store, the resolver returns the full,
\* unsliced work sequence with a warning, and the run is not ended.
C11_RangeFallbackNeverAborts ==
    RangeWithMissingBound
        => /\ products_resolved = Resolved(FullProducts, TRUE)
           /\ reviews_resolved = Resolved(FullReviews, TRUE)

\* C11 as amended: when start_serial or end_serial (or both) does not occur
\* among the serials of the discovery store, the resolver falls back to the
\* full, unsliced work sequence with a warning; the run goes on with it
\* unless that full sequence is empty, in which case the run ends with
\* exit status 1.
C11_RangeFallbackUnlessEmpty ==
    RangeWithMissingBound
        => /\ FellBack(products_resolved, FullProducts)
           /\ FellBack(reviews_resolved, FullReviews)

\* the start serial is in the discovery store, the end serial is not, and
\* both spiders go on with their full sequences after the warning
C11_Witness ==
    /\ RangeWithMissingBound
    /\ Occurs(answers.start_sn[2])
    /\ PositionOf(answers.start_sn) > 1
    /\ products_resolved = Resolved(FullProducts, TRUE)
    /\ Len(FullProducts) >= 2
    /\ reviews_resolved = Resolved(FullReviews, TRUE)

\* the prompts were shown and the discovery store was read
Prompted == BothResolved /\ specific_asins = <<>> /\ input_file.kind = "list"

PriorAsins == {PriorAsin(prior_store.data[i]) : i \in 1..Len(prior_store.data)}

\* C13: process-all mode.  When neither the range nor resume is selected,
\* no item persisted in the prior run's output store is resolved for
\* processing again.
C13_ProcessAllSkipsPersisted ==
    (Prompted /\ answers = NoAnswers)
        => /\ \A i \in 1..Len(products_resolved.items) :
                 products_resolved.items[i] \notin PriorAsins
           /\ \A i \in 1..Len(reviews_resolved.items) :
                 reviews_resolved.items[i].asin \notin PriorAsins

\* C14: an empty resolved work sequence is fatal on every entry path of
\* the product and review spiders: a run never goes on with an empty
\* sequence and never ends normally for want of work; it ends with a
\* failure status.
C14_EmptySequenceIsFatal ==
    BothResolved
        => /\ products_resolved.kind = "ok" => products_resolved.items # <<>>
           /\ reviews_resolved.kind = "ok" => reviews_resolved.items # <<>>
           /\ products_resolved.kind # "finished"
           /\ reviews_resolved.kind # "finished"

----------------------------------------------------------------------------
(* Further claims about the review writer, checked under SpecWriter *)

\* a call of save_to_output_file found a store that json.load rejects or
\* that holds no list, and ran to its end
SavedOnBadStore ==
    /\ wpc = "idle"
    /\ outcome = "saved"
    /\ store_before.kind \in {"corrupt", "notlist"}

\* C15: corrupt store recovery.  When the existing review store is not
\* parseable JSON, or is JSON but no list, save_to_output_file completes
\* without raising, logs a warning, and leaves a store that is a JSON list
\* holding only the new record.
C15_CorruptStoreRecovered ==
    SavedOnBadStore
        => /\ "warning" \in writer_log
           /\ output_file = ListFile(<<call_item>>)

----------------------------------------------------------------------------
(* Further claims about the product store, checked under SpecProducts *)

\* the records of a are the first records of b
IsPrefix(a, b) == Len(a) <= Len(b) /\ SubSeq(b, 1, Len(a)) = a

\* the store of the current run exists and holds what the run collected
RunStoreWritten ==
    /\ prod_run > 0
    /\ data_collected # <<>>
    /\ latest_products = ListFile(data_collected)

\* C16: every write of an output store goes to a temporary file that then
\* replaces the store, never to the store opened in truncate-and-write
\* mode, so that whatever happens during a write the records persisted
\* before it are still in the store afterwards.
C16_WriteKeepsPersisted ==
    [][(RunStoreWritten /\ prod_run' = prod_run)
          => /\ latest_products'.kind = "list"
             /\ IsPrefix(latest_products.data, latest_products'.data)]_vars

\* the number of lines the current run of the discovery spider has added
\* to the store (the store held one line per ASIN of previously_scraped_asins
\* when the run began)
AsinRunAppended == Len(asin_file) - Cardinality(previously_scraped_asins)

\* C17: hard item cap.  A run never persists more records than its cap
\* (max_products, MAX_PRODUCTS), and a run that had more pending items than
\* the cap, so that the cap was reached, has persisted exactly that many.
C17_CapPersistsExactlyN ==
    /\ asin_run > 0
          => /\ AsinRunAppended <= max_products
             /\ scraped_count >= max_products => AsinRunAppended = max_products
    /\ (prod_run > 0 /\ prod_alive)
          => /\ Len(data_collected) <= MAX_PRODUCTS
             /\ data_collected # <<>> => latest_products = ListFile(data_collected)
             /\ product_count >= MAX_PRODUCTS
                   => Len(data_collected) = MAX_PRODUCTS

----------------------------------------------------------------------------
(* Claims about parse_reviews, checked under SpecReviews and SpecReviewsLive *)

\* the last callback reached one of its four terminal outcomes
ReachedOutcome ==
    /\ rv_pc = "idle"
    /\ rv_outcome \in {"404", "timeout", "no_section", "extracted"}

\* the records of the store that carry the ASIN
StoredFor(asin) ==
    {j \in 1..Len(LoadExisting(output_file)) : output_file.data[j].ASIN = asin}

----------------------------------------------------------------------------
(* Claim about the seeding of the serial counters, checked under SpecSeed *)

BothSeeded == products_seed # NotCalled /\ reviews_seed # NotCalled

\* the usable serial numbers stored in the prior store
UsableSerials ==
    IF prior_store.kind = "list"
    THEN {prior_store.data[i] : i \in 1..Len(prior_store.data)} \ {NoField, NoDigits}
    ELSE {}

\* the greatest of them
HighestUsable == CHOOSE k \in UsableSerials : \A m \in UsableSerials : m <= k

\* every record of the prior store has a usable serial
AllUsable ==
    \A i \in 1..Len(prior_store.data) : prior_store.data[i] \notin {NoField, NoDigits}

----------------------------------------------------------------------------
(* Claim about duplicates in the product store, checked under SpecProducts *)

\* C21: within one run no two persisted product records have the same
\* ASIN, also when the work list names the same ASIN more than once.
C21_OneProductRecordPerAsin ==
    (prod_run > 0 /\ prod_alive)
        => /\ \A i \in 1..Len(data_collected) : \A j \in 1..Len(data_collected) :
                 data_collected[i].ASIN = data_collected[j].ASIN => i = j
           /\ latest_products.kind = "list" /\ data_collected # <<>>
                 => latest_products.data = data_collected

\* the work list named an ASIN again whose record the run has written: the
\* second request was dropped
C21_Witness ==
    /\ prod_alive /\ prod_outcome = "filtered"
    /\ \E i \in 1..Len(data_collected) : data_collected[i].ASIN \in prod_requested
    /\ latest_products = ListFile(data_collected)

----------------------------------------------------------------------------
(* Claim about malformed stores met by the resolvers, under SpecResolve *)

\* C22: malformed persisted JSON is recovered locally: a run that meets a
\* malformed discovery store while resolving its work list goes on with a
\* safe default; it neither exits nor raises.
C22_MalformedStoreNeverEndsRun ==
    \A r \in {products_resolved, reviews_resolved} :
        (r # Pending /\ input_file = CorruptFile)
            => r.kind \notin {"exit", "raised"}

----------------------------------------------------------------------------
(* Claim about the number of fetches in flight, checked under SpecEngine *)

\* C23: in each of the three spiders at most one fetch is in flight at any
\* time.
C23_OneFetchInFlight == eng_in_flight <= 1

----------------------------------------------------------------------------
(* Claims about the reviews of one ASIN, checked under SpecPaging *)

\* C24: over all pages of an ASIN, whatever blocks are skipped as
\* duplicates, the serials of the emitted reviews are RV1, RV2, ... RVn:
\* pairwise distinct and consecutive from RV1.
C24_ReviewSerialsConsecutive ==
    \A k \in 1..Len(pg_emitted) :
        pg_emitted[k].review_serial_number = FormatSerial("RV", k)

\* the ids of the reviews emitted for the ASIN
EmittedIds == {pg_emitted[k].review_id : k \in 1..Len(pg_emitted)}

\* C25: no two reviews emitted for an ASIN carry the same extracted
\* (non-fallback) review id; a block whose id is already in
\* processed_reviews[asin] is skipped: it is not emitted again, and the
\* counter counts each processed id once.
C25_NoRepeatedReviewId ==
    /\ \A i \in 1..Len(pg_emitted) : \A j \in 1..Len(pg_emitted) :
          (/\ pg_emitted[i].review_id = pg_emitted[j].review_id
           /\ pg_emitted[i].review_id \notin ManualIds) => i = j
    /\ EmittedIds = pg_processed
    /\ pg_counter = 1 + Cardinality(pg_processed)

\* the last page held the same review id in every block, on a page of two
\* blocks or more: one review is emitted, the others were skipped
C25_Witness ==
    /\ Len(pg_page) >= 2
    /\ \A k \in 1..Len(pg_page) : pg_page[k] = pg_page[1] /\ pg_page[k] \in ReviewIds
    /\ EmittedIds = {pg_page[1]}
    /\ Len(pg_emitted) = 1

\* C26: per-ASIN cap.  The reviews emitted for an ASIN never number more
\* than MAX_REVIEWS_PER_ASIN; review_counter[asin], set to 1 by
\* start_requests, lies in 1..MAX_REVIEWS_PER_ASIN + 1 and is one more
\* than the number of reviews emitted so far; and no request for a next
\* page is made once the counter has reached MAX_REVIEWS_PER_ASIN.
C26_ReviewCap ==
    /\ Len(pg_emitted) <= MAX_REVIEWS_PER_ASIN
    /\ pg_counter \in 1..(MAX_REVIEWS_PER_ASIN + 1)
    /\ pg_counter = 1 + Len(pg_emitted)
    /\ pg_counter >= MAX_REVIEWS_PER_ASIN => ~pg_waiting

\* the last page offered more blocks than the cap left room for: the ASIN
\* has MAX_REVIEWS_PER_ASIN reviews, the counter is one above the cap and
\* no next page is asked for
C26_Witness ==
    /\ Len(pg_emitted) = MAX_REVIEWS_PER_ASIN
    /\ pg_counter = MAX_REVIEWS_PER_ASIN + 1
    /\ Len(pg_page) = MaxPageBlocks
    /\ pg_emitted[1].review_id \notin {pg_page[k] : k \in 1..Len(pg_page)} \cup ManualIds
    /\ ~pg_waiting

----------------------------------------------------------------------------
(* Claim about the end of pagination, checked under SpecPaging *)

\* C27: the pagination of an ASIN ends whatever the site does, also when
\* every page offers a next-page link and when the reviews of a page are
\* all duplicates: from some point on no request for a page is waiting, so
\* only finitely many pages are requested.
C27_PaginationTerminates == <>[](~pg_waiting)

----------------------------------------------------------------------------
(* Claims about what save_to_output_file does to the store, under SpecWriter *)

\* two records that differ in their reviews list at most
SameButReviews(r, q) == [r EXCEPT !.reviews = <<>>] = [q EXCEPT !.reviews = <<>>]

\* C28: a call of save_to_output_file(asin, item) changes at most the
\* record of the store whose ASIN is asin, and of it only the reviews list,
\* or it appends one record at the end; every other record and the order of
\* the records stay as they were.  While the call runs, and when it fails
\* with an exception, the store file is exactly as it was.
C28_SaveFrame ==
    LET old == LoadExisting(store_before)
        new == LoadExisting(output_file)
    IN  /\ outcome \in {"running", "failed", "interrupted"} => output_file = store_before
        /\ outcome = "saved"
              => /\ output_file.kind = "list"
                 /\ \/ /\ Len(new) = Len(old) + 1
                       /\ \A j \in 1..Len(old) : new[j] = old[j]
                    \/ /\ Len(new) = Len(old)
                       /\ Cardinality({j \in 1..Len(old) : new[j] # old[j]}) <= 1
                       /\ \A j \in 1..Len(old) :
                             \/ new[j] = old[j]
                             \/ /\ old[j].ASIN = call_asin
                                /\ SameButReviews(new[j], old[j])

\* reviews were merged into the first of two records; the second is as it was
C28_Witness ==
    /\ outcome = "saved"
    /\ Len(LoadExisting(store_before)) = 2
    /\ store_before.data[1].ASIN = call_asin
    /\ call_item.reviews # <<>>
    /\ output_file.data[1].reviews = store_before.data[1].reviews \o call_item.reviews
    /\ output_file.data[2] = store_before.data[2]

\* no two records of the document carry the same ASIN
OneRecordPerAsin(f) ==
    \A i \in 1..Len(LoadExisting(f)) : \A j \in 1..Len(LoadExisting(f)) :
        f.data[i].ASIN = f.data[j].ASIN => i = j

\* a call leaves at least as many records as it found
RecordsNeverDecrease ==
    Len(LoadExisting(output_file)) >= Len(LoadExisting(store_before))

\* a call of save_to_output_file has returned
CallReturned == outcome \in {"saved", "failed"}

\* C29, as stated: after any sequence of calls of save_to_output_file that
\* starts from an absent, empty or corrupt store, the store is a JSON list
\* with at most one record per ASIN, and the number of records never
\* decreases.
C29_ListAfterAnyCall ==
    /\ CallReturned => (output_file.kind = "list" /\ OneRecordPerAsin(output_file))
    /\ RecordsNeverDecrease

\* C29, amended: once a call of save_to_output_file has succeeded, the
\* store is a JSON list, and stays one through later calls, with at most
\* one record per ASIN; the number of records never decreases.
C29_ListAfterSuccessfulSave ==
    /\ outcome = "saved" => output_file.kind = "list"
    /\ store_before.kind = "list" => output_file.kind = "list"
    /\ OneRecordPerAsin(output_file)
    /\ RecordsNeverDecrease

\* a call that found a corrupt store has succeeded: the store is the list
\* of the one record of the call
C29_Witness ==
    /\ outcome = "saved"
    /\ store_before = CorruptFile
    /\ output_file = ListFile(<<call_item>>)

----------------------------------------------------------------------------
(* Claim about login, checked under SpecLogin *)

\* C30: login(max_retries) goes through the loop body at most max_retries
\* times; it returns True or raises, the latter only after the
\* max_retries-th failure, and never returns a false value; no review
\* request is yielded unless login has returned True; and once the driver
\* has been quit (CAPTCHA/MFA, or attempts used up) no further attempt
\* calls it.
C30_LoginContract ==
    /\ lg_gets <= lg_max
    /\ lg_pc \in {"loop", "email", "check", "password", "except", "true", "raised"}
    /\ lg_pc = "loop" => lg_attempt < lg_max
    /\ lg_pc = "raised" => lg_attempt = lg_max
    /\ lg_dispatched > 0 => lg_pc = "true"
    /\ ~lg_on_quit

====
